---- MODULE Spec2Model ----
(***************************************************************************)
(* Model of les.runtime.thread_pool (Worker, WorkRequest, ThreadPool) and  *)
(* of les.executors.dummy_executor (DummyExecutor.run / execute).          *)
(*                                                                         *)
(* The pool is modelled as one control thread (the caller of put_request,  *)
(* poll, wait, create_workers, dismiss_workers, join_all_dismissed_workers)*)
(* and the worker threads, which share the two queues.  A blocking queue   *)
(* operation is a step that is enabled only when the queue allows it.      *)
(***************************************************************************)
EXTENDS Integers, Sequences, FiniteSets, TLC

\* ---------------------------------------------------------------- bounds
MaxReq == 2
MaxWorkers == 2
MaxCap == 1
MaxTasks == 3
MaxSolution == 2

WorkerIds == 1..MaxWorkers

VARIABLES
  requests_queue,    \* ThreadPool._requests_queue: sequence of requests
  results_queue,     \* ThreadPool._results_queue: sequence of (request, payload)
  workers,           \* ThreadPool.workers: list of active workers
  dismissedWorkers,  \* ThreadPool.dismissedWorkers
  workRequests,      \* ThreadPool.workRequests: the keys (request ids) of the map
  q_size,            \* capacity of the request queue, 0 = unbounded
  resq_size,         \* capacity of the results queue, 0 = unbounded
  callback,          \* make_requests(callback=...): TRUE when one is given
  exc_callback,      \* make_requests(exc_callback=...): TRUE when one is given
  wpc,               \* position of each worker thread in Worker.run
  wreq,              \* the request a worker holds (0: none)
  wres,              \* payload a worker is about to push: "result" / "exc_info"
  dismissed,         \* Worker._dismissed
  exception,         \* WorkRequest.exception
  ctl,               \* the control thread: the call it is in
  ret,               \* how the last put_request, poll or wait ended (none
                     \* after a later call of another operation)
  nSubmitted,        \* history: number of requests created and submitted
  called,            \* history: per request, invocations of its callable
  pushed,            \* history: per request, pairs pushed on the results queue
  requeued,          \* history: per request, times a dismissed worker put it back
  polled,            \* history: pairs poll took from the results queue, in order
  cbLog,             \* history: callbacks poll invoked, in order
  tasks,             \* the pipeline: all its tasks, in order
  stream,            \* DummyExecutor: tasks the pipeline has still to yield
  epc,               \* DummyExecutor: position in run / execute
  task,              \* DummyExecutor: the task run() is at (id 0: none)
  result,            \* DummyExecutor: what execute returned (None or a Result)
  solution,          \* the adapter's solution once solve() returned (0: none)
  executeLog,        \* history: task ids execute was called with
  adapterLog,        \* history: adapter calls, in order
  finalizeLog,       \* history: task ids given to pipeline.finalize_task
  processLog         \* history: Results given to pipeline.process_result

poolVars == <<requests_queue, results_queue, workers, dismissedWorkers,
              workRequests, q_size, resq_size, callback, exc_callback, wpc,
              wreq, wres, dismissed, exception, ctl, ret, nSubmitted, called,
              pushed, requeued, polled, cbLog>>

execVars == <<tasks, stream, epc, task, result, solution, executeLog, adapterLog,
              finalizeLog, processLog>>

vars == <<poolVars, execVars>>

\* ------------------------------------------------------------- helpers
\* queue.Queue(maxsize): full when maxsize > 0 and that many items are held
Full(q, maxsize) == maxsize > 0 /\ Len(q) >= maxsize

RECURSIVE Reverse(_)
Reverse(s) == IF s = <<>> THEN <<>> ELSE Append(Reverse(Tail(s)), Head(s))

Range(s) == {s[i] : i \in 1..Len(s)}

Idle == [op |-> "idle", req |-> 0, block |-> FALSE, tmo |-> FALSE,
         wait |-> FALSE, ws |-> <<>>, clear |-> FALSE]

Ret(op, exc) == [op |-> op, exc |-> exc]

\* attributes WorkRequest.__init__ sets on a request
WorkRequestAttrs == {"request_id", "exception", "callback", "exc_callback",
                     "callable", "args", "kwds"}

\* the attribute put_request reads for the key of the pending map
PutKeyAttr == "request_id"

\* a slip turned round: line 264 names the attribute that exists, so the
\* pending entry is deleted and the loop of poll goes on to the next pair
PollDelAttr_Matches == "request_id"

\* the attribute poll reads for the key it deletes from the pending map
PollDelAttr == "requestID"

\* ---------------------------------------------------------------- Init
\* ThreadPool.__init__ (lines 207-212) and make_requests
PoolInit ==
  /\ requests_queue = <<>>
  /\ results_queue = <<>>
  /\ \E n \in 0..MaxWorkers :
       /\ workers = [i \in 1..n |-> i]
       /\ wpc = [w \in WorkerIds |-> IF w <= n THEN "check" ELSE "none"]
  /\ dismissedWorkers = <<>>
  /\ workRequests = {}
  /\ q_size \in 0..MaxCap
  /\ resq_size \in 0..MaxCap
  /\ callback \in BOOLEAN
  /\ exc_callback \in BOOLEAN
  /\ wreq = [w \in WorkerIds |-> 0]
  /\ wres = [w \in WorkerIds |-> "none"]
  /\ dismissed = [w \in WorkerIds |-> FALSE]
  /\ exception = [r \in 1..MaxReq |-> FALSE]
  /\ ctl = Idle
  /\ ret = Ret("none", "none")
  /\ nSubmitted = 0
  /\ called = [r \in 1..MaxReq |-> 0]
  /\ pushed = [r \in 1..MaxReq |-> 0]
  /\ requeued = [r \in 1..MaxReq |-> 0]
  /\ polled = <<>>
  /\ cbLog = <<>>

\* -------------------------------------------------------------- Worker
\* a slip: a worker that exits takes itself out of the pool's worker list
WorkerCheck_Deregisters(w) ==
  /\ wpc[w] = "check"
  /\ wpc' = [wpc EXCEPT ![w] = IF dismissed[w] THEN "done" ELSE "get"]
  /\ workers' = IF dismissed[w] THEN SelectSeq(workers, LAMBDA x : x # w)
                                ELSE workers
  /\ dismissedWorkers' = IF dismissed[w]
                           THEN SelectSeq(dismissedWorkers, LAMBDA x : x # w)
                           ELSE dismissedWorkers
  /\ UNCHANGED <<requests_queue, results_queue,
                 workRequests, q_size, resq_size, callback, exc_callback,
                 wreq, wres, dismissed, exception, ctl, ret, nSubmitted,
                 called, pushed, requeued, polled, cbLog>>

\* Worker.run, line 106: the dismissal check at the top of the loop
WorkerCheck(w) ==
  /\ wpc[w] = "check"
  /\ wpc' = [wpc EXCEPT ![w] = IF dismissed[w] THEN "done" ELSE "get"]
  /\ UNCHANGED <<requests_queue, results_queue, workers, dismissedWorkers,
                 workRequests, q_size, resq_size, callback, exc_callback,
                 wreq, wres, dismissed, exception, ctl, ret, nSubmitted,
                 called, pushed, requeued, polled, cbLog>>

\* a slip: the request queue is a LIFO queue, a worker takes the newest
\* request
WorkerGet_Lifo(w) ==
  /\ wpc[w] = "get"
  /\ IF requests_queue # <<>>
       THEN /\ wreq' = [wreq EXCEPT
                          ![w] = requests_queue[Len(requests_queue)]]
            /\ requests_queue' = SubSeq(requests_queue, 1,
                                        Len(requests_queue) - 1)
            /\ wpc' = [wpc EXCEPT ![w] = "got"]
       ELSE /\ wpc' = [wpc EXCEPT ![w] = "check"]
            /\ UNCHANGED <<wreq, requests_queue>>
  /\ UNCHANGED <<results_queue, workers, dismissedWorkers, workRequests,
                 q_size, resq_size, callback, exc_callback, wres, dismissed,
                 exception, ctl, ret, nSubmitted, called, pushed, requeued, polled,
                 cbLog>>

\* Worker.run, lines 109-111: requests_queue.get(True, poll_timeout)
WorkerGet(w) ==
  /\ wpc[w] = "get"
  /\ IF requests_queue # <<>>
       THEN /\ wreq' = [wreq EXCEPT ![w] = Head(requests_queue)]
            /\ requests_queue' = Tail(requests_queue)
            /\ wpc' = [wpc EXCEPT ![w] = "got"]
       ELSE \* queue.Empty after the poll timeout: continue
            /\ wpc' = [wpc EXCEPT ![w] = "check"]
            /\ UNCHANGED <<wreq, requests_queue>>
  /\ UNCHANGED <<results_queue, workers, dismissedWorkers, workRequests,
                 q_size, resq_size, callback, exc_callback, wres, dismissed,
                 exception, ctl, ret, nSubmitted, called, pushed, requeued, polled,
                 cbLog>>

\* a slip in Worker.run: the dismissal flag is not read after the dequeue,
\* the callable is invoked at once
WorkerGot_NoFlagCheck(w) ==
  /\ wpc[w] = "got"
  /\ wpc' = [wpc EXCEPT ![w] = "exec"]
  /\ called' = [called EXCEPT ![wreq[w]] = @ + 1]
  /\ UNCHANGED <<requests_queue, results_queue, workers, dismissedWorkers,
                 workRequests, q_size, resq_size, callback, exc_callback,
                 wreq, wres, dismissed, exception, ctl, ret, nSubmitted,
                 pushed, requeued, polled, cbLog>>

\* Worker.run, line 113: the dismissal check after a request was dequeued;
\* line 117: otherwise the callable is invoked
WorkerGot(w) ==
  /\ wpc[w] = "got"
  /\ IF dismissed[w]
       THEN /\ wpc' = [wpc EXCEPT ![w] = "requeue"]
            /\ UNCHANGED called
       ELSE /\ wpc' = [wpc EXCEPT ![w] = "exec"]
            /\ called' = [called EXCEPT ![wreq[w]] = @ + 1]
  /\ UNCHANGED <<requests_queue, results_queue, workers, dismissedWorkers,
                 workRequests, q_size, resq_size, callback, exc_callback,
                 wreq, wres, dismissed, exception, ctl, ret, nSubmitted,
                 pushed, requeued, polled, cbLog>>

\* a slip in Worker.run: the "break" after the requeue is missing, so the
\* worker falls through to the callable with the request it has put back
WorkerRequeue_NoBreak(w) ==
  /\ wpc[w] = "requeue"
  /\ ~Full(requests_queue, q_size)
  /\ requests_queue' = Append(requests_queue, wreq[w])
  /\ requeued' = [requeued EXCEPT ![wreq[w]] = @ + 1]
  /\ called' = [called EXCEPT ![wreq[w]] = @ + 1]
  /\ wpc' = [wpc EXCEPT ![w] = "exec"]
  /\ UNCHANGED <<results_queue, workers, dismissedWorkers, workRequests,
                 q_size, resq_size, callback, exc_callback, wreq, wres,
                 dismissed, exception, ctl, ret, nSubmitted, pushed, polled,
                 cbLog>>

\* a slip in Worker.run: a dismissed worker exits without putting the
\* request it dequeued back
WorkerRequeue_Drops(w) ==
  /\ wpc[w] = "requeue"
  /\ wreq' = [wreq EXCEPT ![w] = 0]
  /\ wpc' = [wpc EXCEPT ![w] = "done"]
  /\ UNCHANGED <<requests_queue, results_queue, workers, dismissedWorkers,
                 workRequests, q_size, resq_size, callback, exc_callback,
                 wres, dismissed, exception, ctl, ret, nSubmitted, called,
                 pushed, requeued, polled, cbLog>>

\* Worker.run, lines 114-115: requests_queue.put(request) (blocking); break
WorkerRequeue(w) ==
  /\ wpc[w] = "requeue"
  /\ ~Full(requests_queue, q_size)
  /\ requests_queue' = Append(requests_queue, wreq[w])
  /\ wreq' = [wreq EXCEPT ![w] = 0]
  /\ wpc' = [wpc EXCEPT ![w] = "done"]
  /\ requeued' = [requeued EXCEPT ![wreq[w]] = @ + 1]
  /\ UNCHANGED <<results_queue, workers, dismissedWorkers, workRequests,
                 q_size, resq_size, callback, exc_callback, wres, dismissed,
                 exception, ctl, ret, nSubmitted, called, pushed, polled,
                 cbLog>>

\* a slip in Worker.run: no except clause, so a callable that raises ends
\* the worker thread
WorkerExec_Dies(w) ==
  /\ wpc[w] = "exec"
  /\ \E raises \in BOOLEAN :
       IF raises
         THEN /\ wpc' = [wpc EXCEPT ![w] = "done"]
              /\ UNCHANGED wres
         ELSE /\ wpc' = [wpc EXCEPT ![w] = "put"]
              /\ wres' = [wres EXCEPT ![w] = "result"]
  /\ UNCHANGED <<requests_queue, results_queue, workers, dismissedWorkers,
                 workRequests, q_size, resq_size, callback, exc_callback,
                 wreq, dismissed, exception, ctl, ret, nSubmitted, called,
                 pushed, requeued, polled, cbLog>>

\* a slip: dismissal stops the thread in the middle of the callable, the
\* request it was running is lost
WorkerExec_Preempted(w) ==
  /\ wpc[w] = "exec"
  /\ IF dismissed[w]
       THEN /\ wpc' = [wpc EXCEPT ![w] = "done"]
            /\ UNCHANGED <<wres, exception>>
       ELSE /\ \E raises \in BOOLEAN :
                 /\ wres' = [wres EXCEPT
                               ![w] = IF raises THEN "exc_info" ELSE "result"]
                 /\ exception' = IF raises
                                   THEN [exception EXCEPT ![wreq[w]] = TRUE]
                                   ELSE exception
            /\ wpc' = [wpc EXCEPT ![w] = "put"]
  /\ UNCHANGED <<requests_queue, results_queue, workers, dismissedWorkers,
                 workRequests, q_size, resq_size, callback, exc_callback,
                 wreq, dismissed, ctl, ret, nSubmitted, called, pushed,
                 requeued, polled, cbLog>>

\* Worker.run, lines 117 and 119-120: the callable returns or raises
WorkerExec(w) ==
  /\ wpc[w] = "exec"
  /\ \E raises \in BOOLEAN :
       /\ wres' = [wres EXCEPT ![w] = IF raises THEN "exc_info" ELSE "result"]
       /\ exception' = IF raises THEN [exception EXCEPT ![wreq[w]] = TRUE]
                                 ELSE exception
  /\ wpc' = [wpc EXCEPT ![w] = "put"]
  /\ UNCHANGED <<requests_queue, results_queue, workers, dismissedWorkers,
                 workRequests, q_size, resq_size, callback, exc_callback,
                 wreq, dismissed, ctl, ret, nSubmitted, called, pushed,
                 requeued, polled, cbLog>>

\* a slip: the results queue is made without its capacity, so a worker's put
\* never waits
WorkerPut_NoBlock(w) ==
  /\ wpc[w] = "put"
  /\ results_queue' = Append(results_queue, [req |-> wreq[w], payload |-> wres[w]])
  /\ pushed' = [pushed EXCEPT ![wreq[w]] = @ + 1]
  /\ wreq' = [wreq EXCEPT ![w] = 0]
  /\ wres' = [wres EXCEPT ![w] = "none"]
  /\ wpc' = [wpc EXCEPT ![w] = "check"]
  /\ UNCHANGED <<requests_queue, workers, dismissedWorkers, workRequests,
                 q_size, resq_size, callback, exc_callback, dismissed,
                 exception, ctl, ret, nSubmitted, called, requeued, polled,
                 cbLog>>

\* Worker.run, lines 118 and 121: results_queue.put((request, ...)) (blocking)
WorkerPut(w) ==
  /\ wpc[w] = "put"
  /\ ~Full(results_queue, resq_size)
  /\ results_queue' = Append(results_queue, [req |-> wreq[w], payload |-> wres[w]])
  /\ pushed' = [pushed EXCEPT ![wreq[w]] = @ + 1]
  /\ wreq' = [wreq EXCEPT ![w] = 0]
  /\ wres' = [wres EXCEPT ![w] = "none"]
  /\ wpc' = [wpc EXCEPT ![w] = "check"]
  /\ UNCHANGED <<requests_queue, workers, dismissedWorkers, workRequests,
                 q_size, resq_size, callback, exc_callback, dismissed,
                 exception, ctl, ret, nSubmitted, called, requeued, polled, cbLog>>

\* ------------------------------------------------------- control thread
wState == <<wpc, wreq, wres>>
cfg == <<q_size, resq_size, callback, exc_callback>>

\* ThreadPool.create_workers(n): n new workers, started at once
CreateWorkers(n) ==
  /\ ctl.op = "idle"
  /\ LET made == Cardinality({w \in WorkerIds : wpc[w] # "none"})
     IN /\ made + n <= MaxWorkers
        /\ workers' = workers \o [i \in 1..n |-> made + i]
        /\ wpc' = [w \in WorkerIds |->
                     IF w > made /\ w <= made + n THEN "check" ELSE wpc[w]]
  /\ ret' = Ret("none", "none")
  /\ UNCHANGED <<requests_queue, results_queue, dismissedWorkers,
                 workRequests, cfg, wreq, wres, dismissed, exception, ctl,
                 nSubmitted, called, pushed, requeued, polled, cbLog>>

\* a slip in dismiss_workers: the dismissed list is extended whether or not
\* the workers are joined
DismissWorkers_AlwaysExtends(n, do_join) ==
  /\ ctl.op = "idle"
  /\ LET k == IF n < Len(workers) THEN n ELSE Len(workers)
         keep == SubSeq(workers, 1, Len(workers) - k)
         dismiss_list == Reverse(SubSeq(workers, Len(workers) - k + 1,
                                        Len(workers)))
     IN /\ workers' = keep
        /\ dismissed' = [w \in WorkerIds |->
                           dismissed[w] \/ w \in Range(dismiss_list)]
        /\ dismissedWorkers' = dismissedWorkers \o dismiss_list
        /\ IF do_join
             THEN /\ ctl' = [Idle EXCEPT !.op = "join", !.ws = dismiss_list]
                  /\ UNCHANGED ret
             ELSE /\ ret' = Ret("none", "none")
                  /\ UNCHANGED ctl
  /\ UNCHANGED <<requests_queue, results_queue, workRequests, cfg, wState,
                 exception, nSubmitted, called, pushed, requeued, polled, cbLog>>

\* ThreadPool.dismiss_workers(n, do_join), lines 227-236: pop min(n, len)
\* workers off the end of the list and set the flag of each
DismissWorkers(n, do_join) ==
  /\ ctl.op = "idle"
  /\ LET k == IF n < Len(workers) THEN n ELSE Len(workers)
         keep == SubSeq(workers, 1, Len(workers) - k)
         dismiss_list == Reverse(SubSeq(workers, Len(workers) - k + 1,
                                        Len(workers)))
     IN /\ workers' = keep
        /\ dismissed' = [w \in WorkerIds |->
                           dismissed[w] \/ w \in Range(dismiss_list)]
        /\ IF do_join
             THEN /\ ctl' = [Idle EXCEPT !.op = "join", !.ws = dismiss_list]
                  /\ UNCHANGED <<dismissedWorkers, ret>>
             ELSE /\ dismissedWorkers' = dismissedWorkers \o dismiss_list
                  /\ ret' = Ret("none", "none")
                  /\ UNCHANGED ctl
  /\ UNCHANGED <<requests_queue, results_queue, workRequests, cfg, wState,
                 exception, nSubmitted, called, pushed, requeued, polled, cbLog>>

\* ThreadPool.join_all_dismissed_workers, lines 240-242
JoinAllDismissedWorkers ==
  /\ ctl.op = "idle"
  /\ ctl' = [Idle EXCEPT !.op = "join", !.ws = dismissedWorkers,
                         !.clear = TRUE]
  /\ UNCHANGED <<requests_queue, results_queue, workers, dismissedWorkers,
                 workRequests, cfg, wState, dismissed, exception, ret,
                 nSubmitted, called, pushed, requeued, polled, cbLog>>

\* a slip: join() does not wait for the thread to end
Join_NoWait ==
  /\ ctl.op = "join"
  /\ IF ctl.ws = <<>>
       THEN /\ ctl' = Idle
            /\ dismissedWorkers' = IF ctl.clear THEN <<>> ELSE dismissedWorkers
            /\ ret' = Ret("none", "none")
       ELSE /\ ctl' = [ctl EXCEPT !.ws = Tail(ctl.ws)]
            /\ UNCHANGED <<dismissedWorkers, ret>>
  /\ UNCHANGED <<requests_queue, results_queue, workers, workRequests, cfg,
                 wState, dismissed, exception, nSubmitted, called, pushed,
                 requeued, polled, cbLog>>

\* worker.join() in dismiss_workers (line 234) and in
\* join_all_dismissed_workers (line 241): returns once the thread has ended
Join ==
  /\ ctl.op = "join"
  /\ IF ctl.ws = <<>>
       THEN /\ ctl' = Idle
            /\ dismissedWorkers' = IF ctl.clear THEN <<>> ELSE dismissedWorkers
            /\ ret' = Ret("none", "none")
       ELSE /\ wpc[Head(ctl.ws)] = "done"
            /\ ctl' = [ctl EXCEPT !.ws = Tail(ctl.ws)]
            /\ UNCHANGED <<dismissedWorkers, ret>>
  /\ UNCHANGED <<requests_queue, results_queue, workers, workRequests, cfg,
                 wState, dismissed, exception, nSubmitted, called, pushed,
                 requeued, polled, cbLog>>

\* requests_queue.put(request) succeeded (line 248) and the request is
\* recorded in the pending map under request.request_id (line 249)
PutDone(r) ==
  /\ requests_queue' = Append(requests_queue, r)
  /\ workRequests' = IF PutKeyAttr \in WorkRequestAttrs
                       THEN workRequests \cup {r} ELSE workRequests
  /\ nSubmitted' = IF r > nSubmitted THEN r ELSE nSubmitted
  /\ ctl' = Idle
  /\ ret' = Ret("put_request",
                IF PutKeyAttr \in WorkRequestAttrs THEN "none"
                                                   ELSE "AttributeError")

\* a slip in put_request: the assertion on the exception flag is missing
PutRequest_NoAssert(r, block, tmo) ==
  /\ ctl.op = "idle"
  /\ r \in DOMAIN exception
  /\ \/ r = nSubmitted + 1
     \/ r <= nSubmitted /\ exception[r]
  /\ IF ~Full(requests_queue, q_size)
       THEN PutDone(r)
       ELSE IF ~block
         THEN /\ ret' = Ret("put_request", "Full")
              /\ UNCHANGED <<requests_queue, workRequests, nSubmitted, ctl>>
         ELSE /\ ctl' = [Idle EXCEPT !.op = "put", !.req = r,
                                     !.block = TRUE, !.tmo = tmo]
              /\ UNCHANGED <<requests_queue, workRequests, nSubmitted, ret>>
  /\ UNCHANGED <<results_queue, workers, dismissedWorkers, cfg, wState,
                 dismissed, exception, called, pushed, requeued, polled, cbLog>>

\* a slip in put_request: the request is recorded in the pending map before
\* the put, so it stays recorded when the put raises queue.Full
PutRequest_RecordsFirst(r, block, tmo) ==
  /\ ctl.op = "idle"
  /\ r \in DOMAIN exception
  /\ \/ r = nSubmitted + 1
     \/ r <= nSubmitted /\ exception[r]
  /\ IF exception[r]
       THEN /\ ret' = Ret("put_request", "AssertionError")
            /\ UNCHANGED <<requests_queue, workRequests, nSubmitted, ctl>>
       ELSE IF ~Full(requests_queue, q_size)
         THEN PutDone(r)
         ELSE IF ~block
           THEN /\ ret' = Ret("put_request", "Full")
                /\ workRequests' = workRequests \cup {r}
                /\ UNCHANGED <<requests_queue, nSubmitted, ctl>>
           ELSE /\ ctl' = [Idle EXCEPT !.op = "put", !.req = r,
                                       !.block = TRUE, !.tmo = tmo]
                /\ UNCHANGED <<requests_queue, workRequests, nSubmitted, ret>>
  /\ UNCHANGED <<results_queue, workers, dismissedWorkers, cfg, wState,
                 dismissed, exception, called, pushed, requeued, polled, cbLog>>

\* ThreadPool.put_request(request, block, timeout), lines 246-249.  The
\* request is a new one (made by make_requests) or one whose callable raised.
PutRequest(r, block, tmo) ==
  /\ ctl.op = "idle"
  /\ r \in DOMAIN exception
  /\ \/ r = nSubmitted + 1
     \/ r <= nSubmitted /\ exception[r]
  /\ IF exception[r]
       THEN \* line 247: assert not request.exception
            /\ ret' = Ret("put_request", "AssertionError")
            /\ UNCHANGED <<requests_queue, workRequests, nSubmitted, ctl>>
       ELSE IF ~Full(requests_queue, q_size)
         THEN PutDone(r)
         ELSE IF ~block
           THEN \* queue.Full
                /\ ret' = Ret("put_request", "Full")
                /\ UNCHANGED <<requests_queue, workRequests, nSubmitted, ctl>>
           ELSE \* blocked in requests_queue.put
                /\ ctl' = [Idle EXCEPT !.op = "put", !.req = r,
                                       !.block = TRUE, !.tmo = tmo]
                /\ UNCHANGED <<requests_queue, workRequests, nSubmitted, ret>>
  /\ UNCHANGED <<results_queue, workers, dismissedWorkers, cfg, wState,
                 dismissed, exception, called, pushed, requeued, polled, cbLog>>

\* the blocked requests_queue.put of put_request: goes on when there is room,
\* raises queue.Full when the timeout ends with the queue still full
PutBlocked ==
  /\ ctl.op = "put"
  /\ IF ~Full(requests_queue, q_size)
       THEN PutDone(ctl.req)
       ELSE /\ ctl.tmo
            /\ ctl' = Idle
            /\ ret' = Ret("put_request", "Full")
            /\ UNCHANGED <<requests_queue, workRequests, nSubmitted>>
  /\ UNCHANGED <<results_queue, workers, dismissedWorkers, cfg, wState,
                 dismissed, exception, called, pushed, requeued, polled, cbLog>>

\* poll ends by raising exc.  Inside wait (lines 271-274) NoResultsPending
\* is caught and wait returns normally; anything else leaves wait as raised.
PollRaise(wait, exc) ==
  /\ ctl' = Idle
  /\ ret' = IF wait
              THEN Ret("wait", IF exc = "NoResultsPending" THEN "none" ELSE exc)
              ELSE Ret("poll", exc)

\* a slip in poll: the two checks at the top of the loop in the other order
PollTop_WorkersFirst(block, wait, pending) ==
  IF block /\ workers = <<>>
    THEN PollRaise(wait, "NoWorkersAvailable")
    ELSE IF pending = {}
      THEN PollRaise(wait, "NoResultsPending")
      ELSE /\ ctl' = [Idle EXCEPT !.op = "poll_get", !.block = block,
                                  !.wait = wait]
           /\ UNCHANGED ret

\* a slip in poll: the check of the worker list is missing
PollTop_NoWorkerCheck(block, wait, pending) ==
  IF pending = {}
    THEN PollRaise(wait, "NoResultsPending")
    ELSE /\ ctl' = [Idle EXCEPT !.op = "poll_get", !.block = block,
                                !.wait = wait]
         /\ UNCHANGED ret

\* a slip in poll: the worker list is looked at only when no pair is waiting
PollTop_WorkersWhenEmpty(block, wait, pending) ==
  IF pending = {}
    THEN PollRaise(wait, "NoResultsPending")
    ELSE IF block /\ workers = <<>> /\ results_queue = <<>>
      THEN PollRaise(wait, "NoWorkersAvailable")
      ELSE /\ ctl' = [Idle EXCEPT !.op = "poll_get", !.block = block,
                                  !.wait = wait]
           /\ UNCHANGED ret

\* poll, lines 254-257: the two checks at the top of the loop, on the pending
\* map and the worker list (both touched by the control thread only); when
\* both pass the thread is at results_queue.get (line 259)
PollTop(block, wait, pending) ==
  IF pending = {}
    THEN PollRaise(wait, "NoResultsPending")
    ELSE IF block /\ workers = <<>>
      THEN PollRaise(wait, "NoWorkersAvailable")
      ELSE /\ ctl' = [Idle EXCEPT !.op = "poll_get", !.block = block,
                                  !.wait = wait]
           /\ UNCHANGED ret

\* ThreadPool.poll(block) is called (line 251)
Poll(block) ==
  /\ ctl.op = "idle"
  /\ PollTop(block, FALSE, workRequests)
  /\ UNCHANGED <<requests_queue, results_queue, workers, dismissedWorkers,
                 workRequests, cfg, wState, dismissed, exception,
                 nSubmitted, called, pushed, requeued, polled, cbLog>>

\* ThreadPool.wait() is called (line 268): it calls self.poll(True)
Wait ==
  /\ ctl.op = "idle"
  /\ PollTop(TRUE, TRUE, workRequests)
  /\ UNCHANGED <<requests_queue, results_queue, workers, dismissedWorkers,
                 workRequests, cfg, wState, dismissed, exception,
                 nSubmitted, called, pushed, requeued, polled, cbLog>>

\* a slip in poll: the test before the success callback is only
\* `if request.callback`
Callbacks_Both(pair) ==
  (IF exception[pair.req] /\ exc_callback
     THEN <<[fn |-> "exc_callback", req |-> pair.req, arg |-> pair.payload]>>
     ELSE <<>>)
  \o
  (IF callback
     THEN <<[fn |-> "callback", req |-> pair.req, arg |-> pair.payload]>>
     ELSE <<>>)

\* poll, lines 260-263: the callbacks invoked for a pair taken from the queue
Callbacks(pair) ==
  (IF exception[pair.req] /\ exc_callback
     THEN <<[fn |-> "exc_callback", req |-> pair.req, arg |-> pair.payload]>>
     ELSE <<>>)
  \o
  (IF callback /\ ~(exception[pair.req] /\ exc_callback)
     THEN <<[fn |-> "callback", req |-> pair.req, arg |-> pair.payload]>>
     ELSE <<>>)

\* poll, lines 259-266: results_queue.get(block=block), the callbacks, the
\* removal from the pending map and the next turn of the loop; queue.Empty
\* (without block only) ends the loop and poll returns
PollGet ==
  /\ ctl.op = "poll_get"
  /\ IF results_queue # <<>>
       THEN LET pair == Head(results_queue)
            IN /\ results_queue' = Tail(results_queue)
               /\ polled' = Append(polled, pair)
               /\ cbLog' = cbLog \o Callbacks(pair)
               /\ IF PollDelAttr \notin WorkRequestAttrs
                    THEN \* line 264: the attribute lookup raises
                         /\ PollRaise(ctl.wait, "AttributeError")
                         /\ UNCHANGED workRequests
                    ELSE IF pair.req \notin workRequests
                      THEN /\ PollRaise(ctl.wait, "KeyError")
                           /\ UNCHANGED workRequests
                      ELSE /\ workRequests' = workRequests \ {pair.req}
                           /\ PollTop(ctl.block, ctl.wait, workRequests')
       ELSE /\ ~ctl.block
            /\ ctl' = Idle
            /\ ret' = Ret("poll", "none")
            /\ UNCHANGED <<results_queue, polled, cbLog, workRequests>>
  /\ UNCHANGED <<requests_queue, workers, dismissedWorkers, cfg, wState,
                 dismissed, exception, nSubmitted, called, pushed, requeued>>

\* the control thread goes on inside the call it is in
ControlContinue ==
  \/ Join
  \/ PutBlocked
  \/ PollGet

WorkerStep(w) ==
  \/ WorkerCheck(w)
  \/ WorkerGet(w)
  \/ WorkerGot(w)
  \/ WorkerRequeue(w)
  \/ WorkerExec(w)
  \/ WorkerPut(w)

\* ------------------------------------------------------------ executor
\* backend_solvers_pb2: the BackendSolver enum runs from CLP = 0 to SYMPHONY
SCIP == 5
SYMPHONY == 6
RegisteredKinds == 0..SYMPHONY
NoTask == [id |-> 0, solver_id |-> 0]

\* what execute returns: None, or executor_base.Result(task id, solution)
None == [isNone |-> TRUE, id |-> 0, solution |-> 0]
Result(id, sol) == [isNone |-> FALSE, id |-> id, solution |-> sol]

\* an entry of adapterLog: the operation, the task it was for, whether it
\* raised, and the solution it produced or returned (0: none)
AdapterCall(op, id, raised, value) ==
  [op |-> op, id |-> id, raised |-> raised, value |-> value]

\* backend_solvers.get_instance_of(solver_id): an adapter for a registered
\* kind, nothing for any other
GetInstanceOf(solver_id) ==
  IF solver_id \in RegisteredKinds THEN "adapter" ELSE "None"

\* the executor before run() is called, and the pipeline's tasks
ExecInit ==
  /\ \E n \in 0..MaxTasks :
       tasks \in [1..n -> {[id |-> i, solver_id |-> k] :
                             i \in 1..MaxTasks, k \in {SCIP, SYMPHONY + 1}}]
  /\ \A i \in DOMAIN tasks : tasks[i].id = i
  /\ stream = tasks
  /\ epc = "next"
  /\ task = NoTask
  /\ result = None
  /\ solution = 0
  /\ executeLog = <<>>
  /\ adapterLog = <<>>
  /\ finalizeLog = <<>>
  /\ processLog = <<>>

\* no executor at work
ExecOff ==
  /\ tasks = <<>>
  /\ stream = <<>>
  /\ epc = "off"
  /\ task = NoTask
  /\ result = None
  /\ solution = 0
  /\ executeLog = <<>>
  /\ adapterLog = <<>>
  /\ finalizeLog = <<>>
  /\ processLog = <<>>

\* a slip in run: the task is read from the stream without being consumed,
\* so the next turn of the loop executes it again
RunNext_Peeks ==
  /\ epc = "next"
  /\ IF stream = <<>>
       THEN /\ epc' = "returned"
            /\ UNCHANGED <<stream, task, executeLog>>
       ELSE /\ task' = Head(stream)
            /\ executeLog' = Append(executeLog, Head(stream).id)
            /\ epc' = "resolve"
            /\ UNCHANGED stream
  /\ UNCHANGED <<tasks, result, solution, adapterLog, finalizeLog, processLog>>

\* DummyExecutor.run, lines 34-35: the next task of the pipeline, or the end
\* of the loop; execute(task) is called
RunNext ==
  /\ epc = "next"
  /\ IF stream = <<>>
       THEN /\ epc' = "returned"
            /\ UNCHANGED <<stream, task, executeLog>>
       ELSE /\ task' = Head(stream)
            /\ stream' = Tail(stream)
            /\ executeLog' = Append(executeLog, Head(stream).id)
            /\ epc' = "resolve"
  /\ UNCHANGED <<tasks, result, solution, adapterLog, finalizeLog, processLog>>

\* a slip in execute: an unresolved backend is treated like a failed solve
\* (execute returns None instead of raising)
ExecuteResolve_ReturnsNone ==
  /\ epc = "resolve"
  /\ IF GetInstanceOf(task.solver_id) = "None"
       THEN epc' = "route" /\ result' = None
       ELSE epc' = "load" /\ UNCHANGED result
  /\ solution' = 0
  /\ UNCHANGED <<tasks, stream, task, executeLog, adapterLog, finalizeLog,
                 processLog>>

\* DummyExecutor.execute, lines 45-48: the backend is looked up; without one
\* execute raises Error, which run() does not catch
ExecuteResolve ==
  /\ epc = "resolve"
  /\ epc' = IF GetInstanceOf(task.solver_id) = "None" THEN "raised" ELSE "load"
  /\ solution' = 0
  /\ UNCHANGED <<tasks, stream, task, result, executeLog, adapterLog, finalizeLog,
                 processLog>>

\* a slip in execute: load_model_params is outside the try, its error is
\* passed over and solve is called all the same
ExecuteLoad_ErrorIgnored ==
  /\ epc = "load"
  /\ \E raises \in BOOLEAN :
       adapterLog' = Append(adapterLog, AdapterCall("load_model_params",
                                                    task.id, raises, 0))
  /\ epc' = "solve"
  /\ UNCHANGED <<tasks, stream, task, result, solution, executeLog, finalizeLog,
                 processLog>>

\* DummyExecutor.execute, lines 50 and 52-55: solver.load_model_params(...)
\* returns or raises; an exception makes execute return None
ExecuteLoad ==
  /\ epc = "load"
  /\ \E raises \in BOOLEAN :
       /\ adapterLog' = Append(adapterLog, AdapterCall("load_model_params",
                                                       task.id, raises, 0))
       /\ IF raises THEN result' = None /\ epc' = "route"
                    ELSE epc' = "solve" /\ UNCHANGED result
  /\ UNCHANGED <<tasks, stream, task, solution, executeLog, finalizeLog, processLog>>

\* DummyExecutor.execute, lines 51 and 52-55: solver.solve() returns (the
\* adapter then holds a solution) or raises
ExecuteSolve ==
  /\ epc = "solve"
  /\ \E raises \in BOOLEAN :
       IF raises
         THEN /\ adapterLog' = Append(adapterLog,
                                      AdapterCall("solve", task.id, TRUE, 0))
              /\ result' = None
              /\ epc' = "route"
              /\ UNCHANGED solution
         ELSE \E sol \in 1..MaxSolution :
              /\ adapterLog' = Append(adapterLog,
                                      AdapterCall("solve", task.id, FALSE, sol))
              /\ solution' = sol
              /\ epc' = "get_solution"
              /\ UNCHANGED result
  /\ UNCHANGED <<tasks, stream, task, executeLog, finalizeLog, processLog>>

\* DummyExecutor.execute, line 56: Result(task.get_id(), solver.get_solution())
ExecuteReturn ==
  /\ epc = "get_solution"
  /\ adapterLog' = Append(adapterLog, AdapterCall("get_solution", task.id,
                                                  FALSE, solution))
  /\ result' = Result(task.id, solution)
  /\ epc' = "route"
  /\ UNCHANGED <<tasks, stream, task, solution, executeLog, finalizeLog, processLog>>

\* a slip in run: the loop ends after a task that gave no result
RunRoute_StopsOnNone ==
  /\ epc = "route"
  /\ IF result.isNone
       THEN /\ finalizeLog' = Append(finalizeLog, task.id)
            /\ epc' = "returned"
            /\ UNCHANGED processLog
       ELSE /\ processLog' = Append(processLog, result)
            /\ epc' = "next"
            /\ UNCHANGED finalizeLog
  /\ UNCHANGED <<tasks, stream, task, result, solution, executeLog, adapterLog>>

\* a slip in run: the "continue" after finalize_task is missing, and a
\* result is finalized as well
RunRoute_NoContinue ==
  /\ epc = "route"
  /\ finalizeLog' = Append(finalizeLog, task.id)
  /\ processLog' = IF result.isNone THEN processLog
                                    ELSE Append(processLog, result)
  /\ epc' = "next"
  /\ UNCHANGED <<tasks, stream, task, result, solution, executeLog, adapterLog>>

\* DummyExecutor.run, lines 36-39: finalize_task for None, else process_result
RunRoute ==
  /\ epc = "route"
  /\ IF result.isNone
       THEN /\ finalizeLog' = Append(finalizeLog, task.id)
            /\ UNCHANGED processLog
       ELSE /\ processLog' = Append(processLog, result)
            /\ UNCHANGED finalizeLog
  /\ epc' = "next"
  /\ UNCHANGED <<tasks, stream, task, result, solution, executeLog, adapterLog>>

\* ------------------------------------------------- executor properties
Count(seq, x) == Cardinality({i \in DOMAIN seq : seq[i] = x})

\* tasks whose adapter raised in load_model_params or in solve
FailedTasks == {adapterLog[i].id : i \in {j \in DOMAIN adapterLog :
                                            adapterLog[j].raised}}

\* tasks whose adapter loaded and solved without error
SolvedTasks == {adapterLog[i].id : i \in {j \in DOMAIN adapterLog :
                   adapterLog[j].op = "solve" /\ ~adapterLog[j].raised}}

\* the solution the adapter produced for a solved task
SolutionOf(t) ==
  adapterLog[CHOOSE i \in DOMAIN adapterLog :
               /\ adapterLog[i].id = t
               /\ adapterLog[i].op = "solve"
               /\ ~adapterLog[i].raised].value

\* tasks execute was called with whose solver kind has no backend
UnresolvedTasks == {tasks[i].id : i \in {j \in DOMAIN tasks :
                      /\ tasks[j].id \in Range(executeLog)
                      /\ GetInstanceOf(tasks[j].solver_id) = "None"}}

\* run() is still inside execute(t), or between execute(t) and the pipeline
\* call that follows it
InHand(t) == task.id = t /\ epc \in {"resolve", "load", "solve",
                                      "get_solution", "route"}

\* C5: a task whose adapter raised in load_model_params or solve gets exactly
\* one finalize_task call (as soon as run() has routed it) and no
\* process_result call; run() does not end with an error at that task; and
\* run() ends only with the stream exhausted or at a task with no backend.
C5_FailedTaskFinalizedOnce ==
  /\ \A t \in FailedTasks :
       /\ Count(finalizeLog, t) = IF InHand(t) THEN 0 ELSE 1
       /\ \A i \in DOMAIN processLog : processLog[i].id # t
       /\ ~(epc = "raised" /\ task.id = t)
  /\ epc = "returned" => stream = <<>> /\ Len(executeLog) = Len(tasks)
  /\ epc = "raised" => task.id \in UnresolvedTasks

\* a first task that failed and was finalized, and run() already executing
\* the next one
C5_Witness ==
  /\ 1 \in FailedTasks
  /\ finalizeLog = <<1>>
  /\ Len(executeLog) = 2
  /\ epc = "load"

\* C6: a task whose solver kind has no backend ends run() with the error
\* execute raised, with no adapter call, no finalize_task and no
\* process_result for that task.
C6_UnresolvedTaskIsFatal ==
  \A t \in UnresolvedTasks :
    ~(task.id = t /\ epc = "resolve") =>
      /\ epc = "raised"
      /\ task.id = t
      /\ Count(finalizeLog, t) = 0
      /\ \A i \in DOMAIN processLog : processLog[i].id # t
      /\ \A i \in DOMAIN adapterLog : adapterLog[i].id # t

\* run() raised at the second task, after the first one was processed
C6_Witness ==
  /\ epc = "raised"
  /\ task.id = 2
  /\ Len(processLog) = 1
  /\ stream # <<>>

\* C7: a task whose adapter loaded and solved without error gets exactly one
\* process_result call (once run() has routed it), with a Result of the
\* task's id and the adapter's solution, and no finalize_task call.
C7_SolvedTaskProcessedOnce ==
  \A t \in SolvedTasks :
    /\ Count(finalizeLog, t) = 0
    /\ Cardinality({i \in DOMAIN processLog : processLog[i].id = t})
         = IF InHand(t) THEN 0 ELSE 1
    /\ \A i \in DOMAIN processLog :
         processLog[i].id = t => processLog[i] = Result(t, SolutionOf(t))

\* two solved tasks, both processed, with different solutions
C7_Witness ==
  /\ {1, 2} \subseteq SolvedTasks
  /\ Len(processLog) = 2
  /\ processLog[1].solution # processLog[2].solution
  /\ finalizeLog = <<>>

\* the terminal outcomes task t has had: process_result calls, finalize_task
\* calls, and the error that ended run() at t
ProcessedCount(t) == Cardinality({i \in DOMAIN processLog : processLog[i].id = t})
FatalCount(t) == IF epc = "raised" /\ task.id = t THEN 1 ELSE 0
Outcomes(t) == ProcessedCount(t) + Count(finalizeLog, t) + FatalCount(t)

\* C17: execute has been called for the tasks of the stream one by one in
\* stream order, once each, the rest of the stream still to come; a task has
\* no outcome while it is in hand and exactly one afterwards (process_result,
\* finalize_task or the fatal error), tasks not yet taken have none, and
\* every task before a fatal one was processed or finalized.
C17_OneOutcomePerTask ==
  /\ Len(executeLog) <= Len(tasks)
  /\ \A i \in DOMAIN executeLog : executeLog[i] = tasks[i].id
  /\ stream = SubSeq(tasks, Len(executeLog) + 1, Len(tasks))
  /\ \A i \in DOMAIN tasks :
       Outcomes(tasks[i].id) =
         IF i > Len(executeLog) \/ InHand(tasks[i].id) THEN 0 ELSE 1
  /\ epc = "raised" =>
       /\ task.id = executeLog[Len(executeLog)]
       /\ \A i \in 1..(Len(executeLog) - 1) :
            ProcessedCount(tasks[i].id) + Count(finalizeLog, tasks[i].id) = 1

\* three tasks, each with a different outcome: run() raised at the third
C17_Witness ==
  /\ epc = "raised"
  /\ Len(executeLog) = 3
  /\ Len(finalizeLog) = 1
  /\ Len(processLog) = 1

\* the adapter calls made for task t, in the order they were made
IsFor(t, e) == e.id = t
AdapterCallsOf(t) == SelectSeq(adapterLog, LAMBDA e : IsFor(t, e))

\* C24: the adapter calls for one task are, in this order, load_model_params,
\* then solve only if load_model_params returned, then get_solution only if
\* solve returned too, and nothing after; a task whose load or solve raised
\* has no get_solution call.
C24_AdapterOrder ==
  \A i \in DOMAIN tasks :
    LET s == AdapterCallsOf(tasks[i].id)
    IN /\ Len(s) <= 3
       /\ Len(s) >= 1 => s[1].op = "load_model_params"
       /\ Len(s) >= 2 => s[2].op = "solve" /\ ~s[1].raised
       /\ Len(s) >= 3 => s[3].op = "get_solution" /\ ~s[2].raised
       /\ (\E k \in DOMAIN s : s[k].raised) =>
            \A k \in DOMAIN s : s[k].op # "get_solution"

\* three tasks: the load of the first raised, the solve of the second
\* raised, the third went through to get_solution
C24_Witness ==
  /\ Len(adapterLog) = 6
  /\ adapterLog[1].raised
  /\ adapterLog[3].raised /\ adapterLog[3].op = "solve"
  /\ adapterLog[6].op = "get_solution" /\ adapterLog[6].id = 3

\* ----------------------------------------------------- pool properties
Submitted == 1..nSubmitted

\* the requests whose pair poll has taken from the results queue
Polled == {polled[i].req : i \in DOMAIN polled}

\* the callbacks poll has invoked for request r
CallbacksOf(r) == Cardinality({i \in DOMAIN cbLog : cbLog[i].req = r})

\* C1: wait() is a barrier: when control has left wait() on a pool that has
\* an active worker and registered callbacks, wait() returned normally
\* and every submitted request has had exactly one callback.
C1_WaitIsBarrier ==
  (ret.op = "wait" /\ workers # <<>> /\ nSubmitted >= 1
     /\ callback /\ exc_callback)
    => /\ ret.exc = "none"
       /\ \A r \in Submitted : CallbacksOf(r) = 1

\* C2: the callable of a request is invoked at most once and at most one
\* pair for it is pushed onto the results queue.
C2_AtMostOnce ==
  \A r \in DOMAIN exception : called[r] <= 1 /\ pushed[r] <= 1

\* a request that a dismissed worker put back and that another worker ran
C2_Witness ==
  \E r \in DOMAIN exception :
    requeued[r] >= 1 /\ called[r] = 1 /\ pushed[r] = 1

\* C4: a poll(True) or wait() called with a non-empty pending map and no
\* active worker ends at once with NoWorkersAvailable (for wait(): raised to
\* its caller); a blocking poll never waits on the results queue without an
\* active worker.
C4_NoWorkersAvailable ==
  /\ [](ctl.op = "poll_get" /\ ctl.block => workers # <<>>)
  /\ [][(workRequests # {} /\ workers = <<>>) =>
          /\ Poll(TRUE) => ctl' = Idle /\ ret' = Ret("poll", "NoWorkersAvailable")
          /\ Wait => ctl' = Idle /\ ret' = Ret("wait", "NoWorkersAvailable")]_vars

\* wait() has raised NoWorkersAvailable with a request pending
C4_Witness ==
  /\ ret = Ret("wait", "NoWorkersAvailable")
  /\ ctl = Idle
  /\ workRequests # {}
  /\ workers = <<>>

\* C8: the pending map holds exactly the requests that were submitted and
\* whose pair poll has not yet taken from the results queue.
C8_PendingIsUndelivered ==
  workRequests = Submitted \ Polled

\* C10: a worker thread ends only by dismissal, a worker that is about to
\* push error-info has set the request's exception flag, and a pair on the
\* results queue carries error-info exactly when its request's flag is set.
C10_FailureIsData ==
  /\ \A w \in WorkerIds : wpc[w] = "done" => dismissed[w]
  /\ \A w \in WorkerIds :
       wpc[w] = "put" => (exception[wreq[w]] <=> wres[w] = "exc_info")
  /\ \A i \in DOMAIN results_queue :
       exception[results_queue[i].req]
         <=> results_queue[i].payload = "exc_info"

\* the only worker ever made ran a request that raised, pushed its pair and
\* is now running the next request
C10_Witness ==
  /\ \A w \in WorkerIds : wpc[w] # "none" => w = 1
  /\ wpc[1] = "exec"
  /\ wreq[1] = 2
  /\ exception[1]
  /\ pushed[1] = 1

\* a request is in one place: on the request queue, in a worker's hands, or
\* pushed onto the results queue
Places(r) ==
  Cardinality({i \in DOMAIN requests_queue : requests_queue[i] = r})
    + Cardinality({w \in WorkerIds : wreq[w] = r})
    + pushed[r]

\* a worker that is already dismissed holds request r, just dequeued
DequeuedAfterDismissal(r) ==
  \E w \in WorkerIds : wpc[w] = "requeue" /\ wreq[w] = r

\* C3 as stated: a request dequeued by a dismissed worker is put back and,
\* unless the pool runs out of active workers, its outcome reaches the
\* results queue.
C3_RequeuedIsServed ==
  \A r \in 1..MaxReq :
    DequeuedAfterDismissal(r) ~>
      (workers = <<>> \/ (requeued[r] >= 1 /\ called[r] >= 1 /\ pushed[r] >= 1))

\* C3 amended: no submitted request is ever lost or doubled, and with an
\* unbounded results queue a request dequeued by a dismissed worker is put
\* back and, unless the pool runs out of active workers, run by another
\* worker, its outcome reaching the results queue.
C3_RequeuedIsServedUnbounded ==
  /\ [](\A r \in Submitted : Places(r) = 1)
  /\ \A r \in 1..MaxReq :
       (resq_size = 0 /\ DequeuedAfterDismissal(r)) ~>
         (workers = <<>> \/ (requeued[r] >= 1 /\ called[r] >= 1 /\ pushed[r] >= 1))

\* a request a dismissed worker put back, pushed by a worker still active,
\* on a pool with an unbounded results queue
C3_Witness ==
  /\ resq_size = 0
  /\ workers # <<>>
  /\ \E r \in DOMAIN exception :
       requeued[r] >= 1 /\ called[r] = 1 /\ pushed[r] = 1

\* C9: every active worker waits to push onto the full results queue and the
\* control thread waits, without timeout, to push onto the full request queue
Deadlocked ==
  /\ ctl.op = "put"
  /\ ~ctl.tmo
  /\ Full(requests_queue, q_size)
  /\ Full(results_queue, resq_size)
  /\ workers # <<>>
  /\ \A w \in WorkerIds : wpc[w] # "none" => wpc[w] = "put"

\* the ways put_request is called: (block, timeout given)
PutModes == {<<FALSE, FALSE>>, <<TRUE, FALSE>>, <<TRUE, TRUE>>}

\* C11: put_request with a request whose exception flag is set ends with
\* AssertionError and leaves the request queue and the pending map as they
\* were; no request on the request queue has its exception flag set.
C11_FlaggedRequestRejected ==
  /\ [](\A i \in DOMAIN requests_queue : ~exception[requests_queue[i]])
  /\ [][\A r \in DOMAIN exception : \A bt \in PutModes :
          (exception[r] /\ PutRequest(r, bt[1], bt[2])) =>
             /\ requests_queue' = requests_queue
             /\ workRequests' = workRequests
             /\ ctl' = Idle
             /\ ret' = Ret("put_request", "AssertionError")]_vars

\* a request whose callable raised was submitted again and refused, with
\* room on the request queue
C11_Witness ==
  /\ ret = Ret("put_request", "AssertionError")
  /\ \E r \in DOMAIN exception : exception[r] /\ pushed[r] = 1
  /\ ~Full(requests_queue, q_size)

\* C12: put_request(block=False) on a full request queue ends with
\* queue.Full and leaves the request queue and the pending map as they were;
\* a request enters the pending map only in the step that appends it to the
\* request queue.
C12_FullRejectsUnrecorded ==
  /\ [][\A r \in DOMAIN exception :
          (~exception[r] /\ Full(requests_queue, q_size)
             /\ PutRequest(r, FALSE, FALSE)) =>
             /\ requests_queue' = requests_queue
             /\ workRequests' = workRequests
             /\ ctl' = Idle
             /\ ret' = Ret("put_request", "Full")]_vars
  /\ [][\A r \in workRequests' \ workRequests :
          requests_queue' = Append(requests_queue, r)]_vars

\* a submission was refused with queue.Full: the request queue is still
\* full of earlier requests and the refused request is not pending
C12_Witness ==
  /\ ret = Ret("put_request", "Full")
  /\ ctl = Idle
  /\ q_size > 0
  /\ Len(requests_queue) = q_size
  /\ nSubmitted = q_size
  /\ workRequests = Submitted

\* C13: poll called with an empty pending map ends at once with
\* NoResultsPending, whatever block is and whether or not there are active
\* workers, taking no pair from the results queue and invoking no callback;
\* wait() called with an empty pending map returns normally.
C13_NoResultsPendingFirst ==
  [][workRequests = {} =>
       /\ \A block \in BOOLEAN :
            Poll(block) => /\ ctl' = Idle
                           /\ ret' = Ret("poll", "NoResultsPending")
                           /\ results_queue' = results_queue
                           /\ polled' = polled
                           /\ cbLog' = cbLog
       /\ Wait => /\ ctl' = Idle
                  /\ ret' = Ret("wait", "none")
                  /\ results_queue' = results_queue
                  /\ polled' = polled
                  /\ cbLog' = cbLog]_vars

\* wait() has returned normally on a pool with nothing pending and no
\* active worker
C13_Witness ==
  /\ ret = Ret("wait", "none")
  /\ ctl = Idle
  /\ workRequests = {}
  /\ workers = <<>>

\* what poll owes a pair: the failure callback, else the success callback
OwedCallback(pair) ==
  IF exception[pair.req] /\ exc_callback
    THEN <<[fn |-> "exc_callback", req |-> pair.req, arg |-> "exc_info"]>>
    ELSE IF callback
      THEN <<[fn |-> "callback", req |-> pair.req, arg |-> pair.payload]>>
      ELSE <<>>

RECURSIVE OwedCallbacks(_)
OwedCallbacks(pairs) ==
  IF pairs = <<>> THEN <<>>
  ELSE OwedCallback(Head(pairs)) \o OwedCallbacks(Tail(pairs))

\* C14: the callbacks poll has invoked are, pair by pair in the order the
\* pairs were taken, the failure callback (request, error-info) when the
\* request's flag is set and a failure callback is registered, otherwise the
\* success callback (request, payload of the pair) when one is registered,
\* and nothing else: at most one callback per pair.
C14_OneCallbackPerPair ==
  /\ cbLog = OwedCallbacks(polled)
  /\ \A r \in DOMAIN exception : CallbacksOf(r) <= 1

\* both callbacks registered; one request failed, one succeeded, both polled
C14_Witness ==
  /\ callback /\ exc_callback
  /\ Len(polled) = 2
  /\ \E i, j \in DOMAIN cbLog :
       cbLog[i].fn = "exc_callback" /\ cbLog[j].fn = "callback"

\* C15: a worker whose flag is set keeps the request it is executing until
\* the callable has ended and the pair is pushed: from the callable its only
\* step is to the push, from the push its only step appends the pair of that
\* request to the results queue, after which its only step is to terminate;
\* a flagged worker never starts a callable and a terminated one stays so.
C15_DismissalNeverPreempts ==
  [][\A w \in WorkerIds : dismissed[w] =>
       /\ wpc[w] = "exec" =>
            /\ wpc'[w] \in {"exec", "put"}
            /\ wreq'[w] = wreq[w]
       /\ wpc[w] = "put" =>
            \/ wpc'[w] = "put" /\ wreq'[w] = wreq[w] /\ wres'[w] = wres[w]
            \/ /\ wpc'[w] = "check"
               /\ results_queue' =
                    Append(results_queue, [req |-> wreq[w], payload |-> wres[w]])
       /\ wpc[w] = "check" => wpc'[w] \in {"check", "done"}
       /\ wpc[w] = "done" => wpc'[w] = "done"
       /\ wpc'[w] = "exec" => wpc[w] = "exec"]_vars

\* dismiss_workers(1, do_join=True) waits for a worker that was flagged
\* with a request in its hands and has finished the callable
C15_Witness ==
  \E w \in WorkerIds :
    /\ dismissed[w]
    /\ wpc[w] = "put"
    /\ wreq[w] # 0
    /\ ctl.op = "join"
    /\ ctl.ws = <<w>>

\* the control thread is inside join_all_dismissed_workers
InJoinAll == ctl.op = "join" /\ ctl.clear

\* C18: join_all_dismissed_workers starts with the whole dismissed list to
\* join; while it runs the list does not change and each worker of it is
\* either still to be joined or has terminated; the step that returns finds
\* every worker of the list terminated and leaves the list empty.
C18_JoinAllWaitsForAll ==
  /\ [](InJoinAll =>
          /\ Range(ctl.ws) \subseteq Range(dismissedWorkers)
          /\ \A w \in Range(dismissedWorkers) \ Range(ctl.ws) : wpc[w] = "done")
  /\ [][/\ JoinAllDismissedWorkers => ctl'.ws = dismissedWorkers
        /\ (InJoinAll /\ ctl' # Idle) => dismissedWorkers' = dismissedWorkers
        /\ (InJoinAll /\ ctl' = Idle) =>
             /\ \A w \in Range(dismissedWorkers) : wpc[w] = "done"
             /\ dismissedWorkers' = <<>>]_vars

\* join_all_dismissed_workers has joined two dismissed workers and is about
\* to return
C18_Witness ==
  /\ InJoinAll
  /\ ctl.ws = <<>>
  /\ Len(dismissedWorkers) = 2

\* poll has taken the pair of a later request before that of an earlier one
\* (requests are numbered in submission order)
OutOfOrder ==
  \E i, j \in DOMAIN polled : i < j /\ polled[i].req > polled[j].req

\* the worker threads made so far
Made == {w \in WorkerIds : wpc[w] # "none"}

\* C19: results are delivered out of submission order only on a pool that
\* has had at least two workers; with a single worker the pairs come in
\* submission order.
C19_OutOfOrderNeedsTwoWorkers ==
  OutOfOrder => Cardinality(Made) >= 2

\* two active workers, nothing dismissed or put back: request 1 was submitted
\* before request 2 and poll took the pair of 2 before the pair of 1
C19_Witness ==
  /\ Len(workers) >= 2
  /\ \A w \in WorkerIds : ~dismissed[w]
  /\ Len(polled) = 2
  /\ polled[1].req = 2
  /\ polled[2].req = 1

\* the workers a step takes out of the active list
Removed == Range(workers) \ Range(workers')

\* C20: a dismiss_workers(n, do_join) step cuts min(n, number of active
\* workers) workers off the active list, sets the flag of each of them and of
\* no other worker, and extends the dismissed list by exactly them when
\* do_join is false and leaves it alone when do_join is true; at all times
\* the active and the dismissed list share no worker, no active worker is
\* flagged and every worker of the dismissed list is.
C20_DismissBookkeeping ==
  /\ [](/\ Range(workers) \cap Range(dismissedWorkers) = {}
        /\ \A w \in Range(workers) : ~dismissed[w]
        /\ \A w \in Range(dismissedWorkers) : dismissed[w])
  /\ [][\A n \in 1..MaxWorkers : \A do_join \in BOOLEAN :
          DismissWorkers(n, do_join) =>
            LET k == IF n < Len(workers) THEN n ELSE Len(workers)
            IN /\ Len(workers') = Len(workers) - k
               /\ Cardinality(Removed) = k
               /\ Range(workers') \subseteq Range(workers)
               /\ \A w \in WorkerIds :
                    dismissed'[w] = (dismissed[w] \/ w \in Removed)
               /\ do_join => dismissedWorkers' = dismissedWorkers
               /\ ~do_join =>
                    /\ Len(dismissedWorkers') = Len(dismissedWorkers) + k
                    /\ Range(dismissedWorkers')
                         = Range(dismissedWorkers) \cup Removed]_vars

\* one worker was dismissed without join, then dismiss_workers with
\* do_join=True took the last active worker and waits for it
C20_Witness ==
  /\ ctl.op = "join"
  /\ ~ctl.clear
  /\ Len(ctl.ws) = 1
  /\ Len(dismissedWorkers) = 1
  /\ workers = <<>>
  /\ \A w \in Range(ctl.ws) \cup Range(dismissedWorkers) : dismissed[w]

\* the control thread is inside dismiss_workers(n, do_join=True), joining
InDismissJoin == ctl.op = "join" /\ ~ctl.clear

\* C21: on a pool with an unbounded results queue, whatever the capacity of
\* the request queue and whether or not an active worker remains, a
\* dismiss_workers(n, do_join=True) that is joining eventually returns.
C21_DismissJoinReturns ==
  (InDismissJoin /\ resq_size = 0) ~> ctl = Idle

\* C22: a worker that reads its flag set at the top of the loop exits; one
\* that reads it set right after a dequeue invokes no callable and goes to
\* the requeue, whose only step appends the request it holds to the request
\* queue, leaving the exception flags, the results queue and the counts of
\* calls and pushes as they were, and ends the worker; a worker that has
\* exited does nothing more.
C22_DismissedWorkerRunsNothing ==
  [][\A w \in WorkerIds :
       /\ (dismissed[w] /\ wpc[w] = "check" /\ wpc'[w] # "check")
            => wpc'[w] = "done"
       /\ (dismissed[w] /\ wpc[w] = "got" /\ wpc'[w] # "got")
            => /\ wpc'[w] = "requeue"
               /\ wreq'[w] = wreq[w]
               /\ called' = called
       /\ (wpc[w] = "requeue" /\ wpc'[w] # "requeue")
            => /\ wpc'[w] = "done"
               /\ requests_queue' = Append(requests_queue, wreq[w])
               /\ exception' = exception
               /\ results_queue' = results_queue
               /\ called' = called
               /\ pushed' = pushed
       /\ wpc[w] = "done" => wpc'[w] = "done" /\ wreq'[w] = wreq[w]]_vars

\* a worker dismissed between its dequeue and its look at the flag has put
\* the request back and exited: the request is on the queue, never called
C22_Witness ==
  \E w \in WorkerIds : \E r \in DOMAIN exception :
    /\ wpc[w] = "done"
    /\ requeued[r] = 1
    /\ called[r] = 0
    /\ pushed[r] = 0
    /\ ~exception[r]
    /\ \E i \in DOMAIN requests_queue : requests_queue[i] = r

Bookkeeping == <<workRequests, workers, dismissedWorkers>>

\* C25: every step of a worker thread leaves the pending map, the worker
\* list and the dismissed list unchanged; the worker list changes only in
\* create_workers and dismiss_workers, the dismissed list only in
\* dismiss_workers and join_all_dismissed_workers, the pending map only in
\* put_request and poll.
C25_WorkersLeaveBookkeeping ==
  /\ [][\A w \in WorkerIds :
          (wpc'[w] # wpc[w] /\ wpc[w] # "none") => UNCHANGED Bookkeeping]_vars
  /\ [][/\ workers' # workers =>
             \E n \in 1..MaxWorkers :
               \/ CreateWorkers(n)
               \/ \E do_join \in BOOLEAN : DismissWorkers(n, do_join)
        /\ dismissedWorkers' # dismissedWorkers =>
             \/ \E n \in 1..MaxWorkers : DismissWorkers(n, FALSE)
             \/ InJoinAll /\ Join
        /\ workRequests' # workRequests =>
             \/ PutBlocked
             \/ PollGet
             \/ \E r \in DOMAIN exception : \E bt \in PutModes :
                  PutRequest(r, bt[1], bt[2])]_vars

\* each of the three structures has been written by the control thread
\* while workers dequeued, put back, executed, pushed and exited
C25_Witness ==
  /\ workRequests # {}
  /\ dismissedWorkers # <<>>
  /\ workers # <<>>
  /\ \E r \in DOMAIN exception : requeued[r] >= 1 /\ pushed[r] = 1
  /\ \E w \in WorkerIds : wpc[w] = "done"

\* every worker has been dismissed, requests are pending and pairs are
\* waiting on the results queue
ResultsStranded ==
  /\ workers = <<>>
  /\ workRequests # {}
  /\ results_queue # <<>>

\* C26: with no active worker, requests pending and pairs waiting, poll(True)
\* and wait() end at once with NoWorkersAvailable, taking no pair and
\* invoking no callback, while poll(False) goes on to read the queue; a pair
\* taken while there is no active worker is taken by a poll(False).
C26_BlockingPollStrandsResults ==
  /\ [][ResultsStranded =>
          /\ (Poll(TRUE) \/ Wait) =>
               /\ ctl' = Idle
               /\ ret'.exc = "NoWorkersAvailable"
               /\ results_queue' = results_queue
               /\ polled' = polled
               /\ cbLog' = cbLog
          /\ Poll(FALSE) => ctl'.op = "poll_get" /\ ~ctl'.block]_vars
  /\ [][(workers = <<>> /\ Len(polled') > Len(polled)) =>
          ctl.op = "poll_get" /\ ~ctl.block /\ ~ctl.wait]_vars

\* poll(True) has raised NoWorkersAvailable with the outcome of a pending
\* request waiting on the results queue and every worker made dismissed
C26_Witness ==
  /\ ret = Ret("poll", "NoWorkersAvailable")
  /\ ctl = Idle
  /\ ResultsStranded
  /\ \E w \in WorkerIds : dismissed[w]
  /\ \A w \in WorkerIds : wpc[w] # "none" => dismissed[w]

\* ------------------------------------------------------ specifications
Init == PoolInit /\ ExecOff

Next ==
  \/ \E n \in 1..MaxWorkers : CreateWorkers(n) /\ UNCHANGED execVars
  \/ \E n \in 1..MaxWorkers, do_join \in BOOLEAN :
       DismissWorkers(n, do_join) /\ UNCHANGED execVars
  \/ JoinAllDismissedWorkers /\ UNCHANGED execVars
  \/ Join /\ UNCHANGED execVars
  \/ \E r \in DOMAIN exception,
        bt \in {<<FALSE, FALSE>>, <<TRUE, FALSE>>, <<TRUE, TRUE>>} :
       PutRequest(r, bt[1], bt[2]) /\ UNCHANGED execVars
  \/ PutBlocked /\ UNCHANGED execVars
  \/ \E block \in BOOLEAN : Poll(block) /\ UNCHANGED execVars
  \/ Wait /\ UNCHANGED execVars
  \/ PollGet /\ UNCHANGED execVars
  \/ \E w \in WorkerIds : WorkerCheck(w) /\ UNCHANGED execVars
  \/ \E w \in WorkerIds : WorkerGet(w) /\ UNCHANGED execVars
  \/ \E w \in WorkerIds : WorkerGot(w) /\ UNCHANGED execVars
  \/ \E w \in WorkerIds : WorkerRequeue(w) /\ UNCHANGED execVars
  \/ \E w \in WorkerIds : WorkerExec(w) /\ UNCHANGED execVars
  \/ \E w \in WorkerIds : WorkerPut(w) /\ UNCHANGED execVars

Spec == Init /\ [][Next]_vars

\* the executor alone, over a pool nobody uses
ExecSpecInit ==
  /\ ExecInit
  /\ requests_queue = <<>>
  /\ results_queue = <<>>
  /\ workers = <<>>
  /\ wpc = [w \in WorkerIds |-> "none"]
  /\ dismissedWorkers = <<>>
  /\ workRequests = {}
  /\ q_size = 0
  /\ resq_size = 0
  /\ callback = FALSE
  /\ exc_callback = FALSE
  /\ wreq = [w \in WorkerIds |-> 0]
  /\ wres = [w \in WorkerIds |-> "none"]
  /\ dismissed = [w \in WorkerIds |-> FALSE]
  /\ exception = [r \in 1..MaxReq |-> FALSE]
  /\ ctl = Idle
  /\ ret = Ret("none", "none")
  /\ nSubmitted = 0
  /\ called = [r \in 1..MaxReq |-> 0]
  /\ pushed = [r \in 1..MaxReq |-> 0]
  /\ requeued = [r \in 1..MaxReq |-> 0]
  /\ polled = <<>>
  /\ cbLog = <<>>

ExecNext ==
  \/ RunNext /\ UNCHANGED poolVars
  \/ ExecuteResolve /\ UNCHANGED poolVars
  \/ ExecuteLoad /\ UNCHANGED poolVars
  \/ ExecuteSolve /\ UNCHANGED poolVars
  \/ ExecuteReturn /\ UNCHANGED poolVars
  \/ RunRoute /\ UNCHANGED poolVars

ExecSpec == ExecSpecInit /\ [][ExecNext]_vars

\* the pool with its threads scheduled fairly: a worker thread that can take
\* a step takes one, and so does the control thread inside a call; the
\* pool's user may stop calling at any point
\* (requests made with make_requests' default callbacks)
FairInit == Init /\ ~callback /\ exc_callback

FairSpec ==
  /\ FairInit
  /\ [][Next]_vars
  /\ \A w \in WorkerIds : WF_vars(WorkerStep(w) /\ UNCHANGED execVars)
  /\ WF_vars(ControlContinue /\ UNCHANGED execVars)

\* a pool with both queues bounded whose user only submits, with blocking
\* put_request and no timeout, one request more than the queues and the
\* workers can hold
SubmitInit ==
  /\ ExecOff
  /\ requests_queue = <<>>
  /\ results_queue = <<>>
  /\ q_size \in 1..MaxCap
  /\ resq_size \in 1..MaxCap
  /\ \E n \in 1..MaxWorkers :
       /\ workers = [i \in 1..n |-> i]
       /\ wpc = [w \in WorkerIds |-> IF w <= n THEN "check" ELSE "none"]
       /\ exception = [r \in 1..(q_size + resq_size + n + 1) |-> FALSE]
  /\ called = [r \in DOMAIN exception |-> 0]
  /\ pushed = [r \in DOMAIN exception |-> 0]
  /\ requeued = [r \in DOMAIN exception |-> 0]
  /\ dismissedWorkers = <<>>
  /\ workRequests = {}
  /\ callback = FALSE
  /\ exc_callback = TRUE
  /\ wreq = [w \in WorkerIds |-> 0]
  /\ wres = [w \in WorkerIds |-> "none"]
  /\ dismissed = [w \in WorkerIds |-> FALSE]
  /\ ctl = Idle
  /\ ret = Ret("none", "none")
  /\ nSubmitted = 0
  /\ polled = <<>>
  /\ cbLog = <<>>

SubmitNext ==
  \/ \E r \in DOMAIN exception : PutRequest(r, TRUE, FALSE) /\ UNCHANGED execVars
  \/ PutBlocked /\ UNCHANGED execVars
  \/ \E w \in WorkerIds : WorkerCheck(w) /\ UNCHANGED execVars
  \/ \E w \in WorkerIds : WorkerGet(w) /\ UNCHANGED execVars
  \/ \E w \in WorkerIds : WorkerGot(w) /\ UNCHANGED execVars
  \/ \E w \in WorkerIds : WorkerExec(w) /\ UNCHANGED execVars
  \/ \E w \in WorkerIds : WorkerPut(w) /\ UNCHANGED execVars

SubmitSpec == SubmitInit /\ [][SubmitNext]_vars

\* C9: in the state described above no step of the pool is enabled: neither
\* a worker's nor the control thread's.
C9_DeadlockIsStuck == Deadlocked => ~ENABLED Next

\* the deadlock, with every request but the last one submitted
C9_Witness == Deadlocked /\ nSubmitted >= 3
\* C16: a wait() that is under way (the pending map was not empty and there
\* was an active worker when poll looked) on a pool with an unbounded
\* results queue eventually returns to its caller normally.
C16_WaitReturns ==
  (ctl.op = "poll_get" /\ ctl.wait /\ resq_size = 0)
    ~> (ctl = Idle /\ ret = Ret("wait", "none"))

====
